---- MODULE Spec2Model ----
(***************************************************************************)
(* leptos_reqwest: the two request dispatchers of src/src/lib.rs,          *)
(* send_and_parse and send.                                                *)
(*                                                                         *)
(* A call is an async function with two suspension points, send().await    *)
(* and text().await; the code between two suspension points is one atomic  *)
(* step of the call.  Strings (addresses, bodies, query strings) are       *)
(* sequences of tokens.  U and E, the caller's Success and Error types,    *)
(* are instantiated as in src/examples/example.rs: U has a field `data`,   *)
(* E a field `errors`, and E's three fallback constructors are kept        *)
(* symbolic (constructor name and argument).                               *)
(***************************************************************************)
EXTENDS Integers, Sequences, FiniteSets, TLC

VARIABLES
    args,    \* args[i]: the arguments call i was invoked with
    server,  \* server[i]: what the network does with call i's request
    pc,      \* pc[i]: where call i is
    sent,    \* sent[i]: the HTTP requests call i has put on the wire
    steps,   \* steps[i]: what call i has done so far, in order
    result,  \* result[i]: None, or Some(value returned to the caller)
    log      \* the process-wide log (the `log` crate's global logger)

vars == <<args, server, pc, sent, steps, result, log>>

\* The number of calls in flight at once under SpecConc.
NumCalls == 2

-----------------------------------------------------------------------------
(* Option and Result *)

None == <<>>
Some(v) == <<v>>
IsSome(o) == Len(o) > 0

Ok(v) == [ok |-> TRUE, val |-> v]
Err(e) == [ok |-> FALSE, val |-> e]

-----------------------------------------------------------------------------
(* The types of the interface *)

HttpMethod == {"Get", "Post", "Put", "Delete"}

\* StatusCode::OK
StatusOK == 200

\* like is_success, with 300 taken for a success
is_success_Through300(st) == st >= 200 /\ st <= 300

\* StatusCode::is_success: 200..=299
is_success(st) == st >= 200 /\ st < 300

\* like status_is_ok, with every 2xx status taken for 200
status_is_ok_Any2xx(st) == st >= 200 /\ st < 300

\* The test of send_and_parse: res.status() == StatusCode::OK
status_is_ok(st) == st = StatusOK

\* E, the caller's error type: Default, Serializable, and the two
\* constructors of the trait LeptosReqwestError.
E_default == [ctor |-> "default", arg |-> ""]
deserialization_error(e) == [ctor |-> "deserialization_error", arg |-> e]
read_error(e) == [ctor |-> "read_error", arg |-> e]

-----------------------------------------------------------------------------
(* Serialization of the request payload.  A payload is a struct: a         *)
(* sequence of fields, each a key, a kind and (for a string) its tokens.   *)
(* kind "str": a string; "map": a nested struct, which a query string      *)
(* cannot hold; "fail": a value whose Serialize implementation fails.      *)

Field(k, t, v) == [k |-> k, t |-> t, v |-> v]

\* application/x-www-form-urlencoded escaping of one token
FormEscape(tok) ==
    CASE tok = "@" -> "%40"
      [] tok = " " -> "+"
      [] OTHER -> tok

FormEscapeAll(v) == [n \in 1..Len(v) |-> FormEscape(v[n])]

RECURSIVE FormPairs(_)
FormPairs(fields) ==
    IF Len(fields) = 0 THEN <<>>
    ELSE LET f == Head(fields)
         IN  <<f.k, "=">> \o FormEscapeAll(f.v)
             \o (IF Len(fields) = 1 THEN <<>>
                 ELSE <<"&">> \o FormPairs(Tail(fields)))

\* serde_urlencoded::to_string(req)
serde_urlencoded_to_string(req) ==
    IF \A n \in 1..Len(req) : req[n].t = "str"
    THEN Ok(FormPairs(req))
    ELSE Err("unsupported value")

JsonValue(f) ==
    IF f.t = "str" THEN <<"\"">> \o f.v \o <<"\"">> ELSE <<"{", "}">>

RECURSIVE JsonMembers(_)
JsonMembers(fields) ==
    IF Len(fields) = 0 THEN <<>>
    ELSE LET f == Head(fields)
         IN  <<"\"", f.k, "\"", ":">> \o JsonValue(f)
             \o (IF Len(fields) = 1 THEN <<>>
                 ELSE <<",">> \o JsonMembers(Tail(fields)))

\* serde_json::to_vec(req), as RequestBuilder::json calls it
serde_json_to_vec(req) ==
    IF \E n \in 1..Len(req) : req[n].t = "fail"
    THEN Err("serialize")
    ELSE Ok(<<"{">> \o JsonMembers(req) \o <<"}">>)

-----------------------------------------------------------------------------
(* The request builder of reqwest *)

ContentTypeJson == <<"content-type", "application/json">>

\* IntoUrl, as client.get / post / patch / delete apply it to the address:
\* a scheme, "://" and a host, then anything.
IntoUrl(url) ==
    /\ Len(url) >= 3
    /\ url[1] \in {"http", "https"}
    /\ url[2] = "://"
    /\ url[3] \notin {"", ":", "/", "?", "://"}

\* client.get(path) / post(url) / patch(url) / delete(url), then
\* .headers(headers): the caller's headers are merged into the request.  An
\* address that is no URL leaves the builder holding an error.
Request(verb, url, headers) ==
    IF IntoUrl(url)
    THEN Ok([verb |-> verb, url |-> url, headers |-> headers, body |-> None])
    ELSE Err("builder error")

\* RequestBuilder::json(&payload): the body is the payload's JSON and a
\* Content-Type is added unless the caller gave one; a payload that does not
\* serialize leaves the builder holding an error, which send() returns.
Json(b, payload) ==
    LET j == serde_json_to_vec(payload)
    IN  IF ~b.ok THEN b
        ELSE IF j.ok
        THEN Ok([b.val EXCEPT
                   !.body = Some(j.val),
                   !.headers = IF \E h \in @ : h[1] = "content-type"
                               THEN @ ELSE @ \cup {ContentTypeJson}])
        ELSE Err("builder error")

Panic == [panic |-> TRUE, builder |-> Err("unwrap on None")]
Built(b) == [panic |-> FALSE, builder |-> b]

-----------------------------------------------------------------------------
(* send_and_parse, lines 58-97: the request built for the arguments a *)

\* The address of a Get (the `path` of lines 61-70).
send_and_parse_Path(a) ==
    IF IsSome(a.request)
    THEN LET query_string == serde_urlencoded_to_string(a.request[1])
         IN  IF query_string.ok
             THEN a.url \o <<"?">> \o query_string.val
             ELSE a.url
    ELSE a.url

\* like send_and_parse_Dispatch, but Put issues PUT
send_and_parse_Dispatch_PutIsPut(a) ==
    CASE a.method = "Get" ->
           Built(Request("GET", send_and_parse_Path(a), a.headers))
      [] a.method = "Post" ->
           IF IsSome(a.request)
           THEN Built(Json(Request("POST", a.url, a.headers), a.request[1]))
           ELSE Panic
      [] a.method = "Put" ->
           IF IsSome(a.request)
           THEN Built(Json(Request("PUT", a.url, a.headers), a.request[1]))
           ELSE Panic
      [] a.method = "Delete" ->
           IF IsSome(a.request)
           THEN Built(Json(Request("DELETE", a.url, a.headers), a.request[1]))
           ELSE Panic

send_and_parse_Dispatch(a) ==
    CASE a.method = "Get" ->
           Built(Request("GET", send_and_parse_Path(a), a.headers))
      [] a.method = "Post" ->
           IF IsSome(a.request)
           THEN Built(Json(Request("POST", a.url, a.headers), a.request[1]))
           ELSE Panic
      [] a.method = "Put" ->
           IF IsSome(a.request)
           THEN Built(Json(Request("PATCH", a.url, a.headers), a.request[1]))
           ELSE Panic
      [] a.method = "Delete" ->
           IF IsSome(a.request)
           THEN Built(Json(Request("DELETE", a.url, a.headers), a.request[1]))
           ELSE Panic

(* send, lines 159-198: the same, written out a second time *)

\* like send_Path, but the "?" is appended whether or not the payload encodes
send_Path_AlwaysQuery(a) ==
    IF IsSome(a.request)
    THEN LET query_string == serde_urlencoded_to_string(a.request[1])
         IN  IF query_string.ok
             THEN a.url \o <<"?">> \o query_string.val
             ELSE a.url \o <<"?">>
    ELSE a.url

send_Path(a) ==
    IF IsSome(a.request)
    THEN LET query_string == serde_urlencoded_to_string(a.request[1])
         IN  IF query_string.ok
             THEN a.url \o <<"?">> \o query_string.val
             ELSE a.url
    ELSE a.url

send_Dispatch(a) ==
    CASE a.method = "Get" ->
           Built(Request("GET", send_Path(a), a.headers))
      [] a.method = "Post" ->
           IF IsSome(a.request)
           THEN Built(Json(Request("POST", a.url, a.headers), a.request[1]))
           ELSE Panic
      [] a.method = "Put" ->
           IF IsSome(a.request)
           THEN Built(Json(Request("PATCH", a.url, a.headers), a.request[1]))
           ELSE Panic
      [] a.method = "Delete" ->
           IF IsSome(a.request)
           THEN Built(Json(Request("DELETE", a.url, a.headers), a.request[1]))
           ELSE Panic

-----------------------------------------------------------------------------
(* Deserialization of a response body: Serializable::de for U and for E.   *)
(* A body is read as a JSON object of string members; unknown members are  *)
(* ignored, as serde does by default.                                      *)

IsPunct(tok) == tok \in {"{", "}", ":", ","}

NoObject == [ok |-> FALSE, fields |-> {}]

RECURSIVE JsonParseMembers(_)
JsonParseMembers(s) ==
    IF Len(s) < 3 THEN NoObject
    ELSE IF IsPunct(s[1]) \/ s[2] # ":" \/ IsPunct(s[3]) THEN NoObject
    ELSE IF Len(s) = 3 THEN [ok |-> TRUE, fields |-> {<<s[1], s[3]>>}]
    ELSE IF s[4] # "," THEN NoObject
    ELSE LET r == JsonParseMembers(SubSeq(s, 5, Len(s)))
         IN  IF r.ok
             THEN [ok |-> TRUE, fields |-> {<<s[1], s[3]>>} \cup r.fields]
             ELSE NoObject

JsonParseObject(text) ==
    IF Len(text) < 2 THEN NoObject
    ELSE IF text[1] # "{" \/ text[Len(text)] # "}" THEN NoObject
    ELSE IF Len(text) = 2 THEN [ok |-> TRUE, fields |-> {}]
    ELSE JsonParseMembers(SubSeq(text, 2, Len(text) - 1))

Member(o, k) == (CHOOSE p \in o.fields : p[1] = k)[2]

\* U::de(&text), U the Success type {data}
U_de(text) ==
    LET o == JsonParseObject(text)
    IN  IF ~o.ok THEN Err("U: expected value")
        ELSE IF \E p \in o.fields : p[1] = "data"
        THEN Ok([data |-> Member(o, "data")])
        ELSE Err("U: missing field data")

\* E::de(&text), E the Error type {errors}
E_de(text) ==
    LET o == JsonParseObject(text)
    IN  IF ~o.ok THEN Err("E: expected value")
        ELSE IF \E p \in o.fields : p[1] = "errors"
        THEN Ok([ctor |-> "de", arg |-> Member(o, "errors")])
        ELSE Err("E: missing field errors")

-----------------------------------------------------------------------------
(* What a call does between two suspension points: where it goes next, the *)
(* value it returns (if it returns), what it did and what it logged.       *)

Await(did) ==
    [next |-> "awaitText", result |-> None, did |-> did, logged |-> <<>>]
Return(r, did, logged) ==
    [next |-> "done", result |-> Some(r), did |-> did, logged |-> logged]

\* log::error!("Error response: {}", text)
log_error(text) == [level |-> "error", msg |-> <<"Error response: ">> \o text]

(* send_and_parse, lines 99-128.  r is the value of send().await and t the *)
(* value of text().await.                                                  *)

send_and_parse_AfterSend(r) ==
    IF r.ok
    THEN IF status_is_ok(r.status)
         THEN Await(<<"status">>)
         ELSE Await(<<"status">>)
    ELSE Return(Err(E_default), <<>>, <<>>)

\* lines 102-113, the status is 200: like send_and_parse_Ok200, but
\* falling back to E's deserializer when U's fails
send_and_parse_Ok200_TriesE(t) ==
    IF t.ok
    THEN LET d == U_de(t.text)
             e == E_de(t.text)
         IN  IF d.ok
             THEN Return(Ok(d.val), <<"text", "U::de">>, <<>>)
             ELSE IF e.ok
             THEN Return(Err(e.val), <<"text", "U::de", "E::de">>, <<>>)
             ELSE Return(Err(deserialization_error(d.val)),
                         <<"text", "U::de", "E::de">>, <<>>)
    ELSE Return(Err(read_error(t.cause)), <<"text">>, <<>>)

\* lines 102-113, the status is 200
send_and_parse_Ok200(t) ==
    IF t.ok
    THEN LET d == U_de(t.text)
         IN  IF d.ok
             THEN Return(Ok(d.val), <<"text", "U::de">>, <<>>)
             ELSE Return(Err(deserialization_error(d.val)),
                         <<"text", "U::de">>, <<>>)
    ELSE Return(Err(read_error(t.cause)), <<"text">>, <<>>)

\* lines 115-124: like send_and_parse_Not200, but an error response is
\* reported in full only while the log is empty
send_and_parse_Not200_OncePerLog(t) ==
    IF t.ok
    THEN LET d == E_de(t.text)
         IN  IF Len(log) > 0
             THEN Return(Err(E_default), <<"text">>, <<>>)
             ELSE IF d.ok
             THEN Return(Err(d.val), <<"text", "E::de">>,
                         <<log_error(t.text)>>)
             ELSE Return(Err(deserialization_error(d.val)),
                         <<"text", "E::de">>, <<log_error(t.text)>>)
    ELSE Return(Err(read_error(t.cause)), <<"text">>, <<>>)

\* lines 115-124, the status is not 200
send_and_parse_Not200(t) ==
    IF t.ok
    THEN LET d == E_de(t.text)
         IN  IF d.ok
             THEN Return(Err(d.val), <<"text", "E::de">>,
                         <<log_error(t.text)>>)
             ELSE Return(Err(deserialization_error(d.val)),
                         <<"text", "E::de">>, <<log_error(t.text)>>)
    ELSE Return(Err(read_error(t.cause)), <<"text">>, <<>>)

send_and_parse_AfterText(st, t) ==
    IF status_is_ok(st)
    THEN send_and_parse_Ok200(t)
    ELSE send_and_parse_Not200(t)

(* send, lines 199-216 *)

\* like send_AfterSend, but a transport failure keeps its cause
send_AfterSend_KeepsCause(r) ==
    IF r.ok
    THEN IF is_success(r.status)
         THEN Return(Ok(TRUE), <<"status">>, <<>>)
         ELSE Await(<<"status">>)
    ELSE Return(Err(read_error(r.cause)), <<>>, <<>>)

send_AfterSend(r) ==
    IF r.ok
    THEN IF is_success(r.status)
         THEN Return(Ok(TRUE), <<"status">>, <<>>)
         ELSE Await(<<"status">>)
    ELSE Return(Err(E_default), <<>>, <<>>)

\* like send_AfterText, but a body that cannot be read yields the default
send_AfterText_ReadIsDefault(st, t) ==
    IF t.ok
    THEN LET d == E_de(t.text)
         IN  IF d.ok
             THEN Return(Err(d.val), <<"text", "E::de">>, <<>>)
             ELSE Return(Err(deserialization_error(d.val)),
                         <<"text", "E::de">>, <<>>)
    ELSE Return(Err(E_default), <<"text">>, <<>>)

send_AfterText(st, t) ==
    IF t.ok
    THEN LET d == E_de(t.text)
         IN  IF d.ok
             THEN Return(Err(d.val), <<"text", "E::de">>, <<>>)
             ELSE Return(Err(deserialization_error(d.val)),
                         <<"text", "E::de">>, <<>>)
    ELSE Return(Err(read_error(t.cause)), <<"text">>, <<>>)

-----------------------------------------------------------------------------
(* The arguments of a call and the behaviours of the network *)

EntryPoints == {"send_and_parse", "send"}

AuthenticationRequest ==
    << Field("email", "str", <<"mark", "@", "kodecraft.dev">>),
       Field("password", "str", <<"pass", " ", "word">>) >>
EmptyRequest == <<>>
NestedRequest == << Field("filter", "map", <<>>) >>
FailingRequest == << Field("id", "fail", <<>>) >>

Payloads ==
    {None, Some(AuthenticationRequest), Some(EmptyRequest),
     Some(NestedRequest), Some(FailingRequest)}

\* The last is the address of src/examples/example.rs, which is no URL.
ExampleCom == <<"https", "://", "example.com">>
ExampleItems == <<"https", "://", "example.com", "/items", "?", "page=1">>
ExampleMalformed == <<"http", ":", "://", "example.com">>

Urls == {ExampleCom, ExampleItems, ExampleMalformed}

HeaderMaps ==
    { {}, {<<"authorization", "Bearer t">>}, {<<"content-type", "text/plain">>} }

Args ==
    [fn : EntryPoints, request : Payloads, url : Urls,
     headers : HeaderMaps, method : HttpMethod]

ConcArgs ==
    { a \in Args :
        /\ a.url = ExampleCom
        /\ a.headers = {}
        /\ \/ a.method = "Get" /\ a.request \in {None, Some(AuthenticationRequest)}
           \/ a.method = "Post" /\ a.request = None }

Statuses == {100, 200, 201, 204, 299, 300, 404, 500}

BodySuccess == <<"{", "data", ":", "token-1", "}">>
BodyError == <<"{", "errors", ":", "denied", "}">>
BodyBoth == <<"{", "data", ":", "token-2", ",", "errors", ":", "partial", "}">>
BodyGarbage == <<"<html>">>
BodyEmpty == <<>>

Bodies == {BodySuccess, BodyError, BodyBoth, BodyGarbage, BodyEmpty}

TransportErrors == {"connect", "timeout"}
ReadErrors == {"decode", "reset"}

TransportFailure(c) ==
    [transport |-> c, status |-> 0, read |-> "", text |-> <<>>]
Answer(st, text) ==
    [transport |-> "ok", status |-> st, read |-> "ok", text |-> text]
Unreadable(st, c) ==
    [transport |-> "ok", status |-> st, read |-> c, text |-> <<>>]

Responses ==
    {TransportFailure(c) : c \in TransportErrors}
    \cup {Answer(st, b) : st \in Statuses, b \in Bodies}
    \cup {Unreadable(st, c) : st \in Statuses, c \in ReadErrors}

ConcResponses ==
    { TransportFailure("connect"), Answer(200, BodySuccess),
      Answer(201, BodySuccess), Answer(404, BodyError),
      Answer(404, BodyGarbage), Unreadable(404, "reset") }

-----------------------------------------------------------------------------
(* The state machine *)

InitWith(calls, as, rs) ==
    /\ args \in [calls -> as]
    /\ server \in [calls -> rs]
    /\ pc = [i \in calls |-> "start"]
    /\ sent = [i \in calls |-> <<>>]
    /\ steps = [i \in calls |-> <<>>]
    /\ result = [i \in calls |-> None]
    /\ log = <<>>

\* One call, any arguments, any behaviour of the network.
Init == InitWith({1}, Args, Responses)

\* NumCalls calls in flight at once.
InitConc == InitWith(1..NumCalls, ConcArgs, ConcResponses)

Calls == DOMAIN pc

Dispatch(a) ==
    IF a.fn = "send_and_parse" THEN send_and_parse_Dispatch(a) ELSE send_Dispatch(a)

AfterSend(a, r) ==
    IF a.fn = "send_and_parse" THEN send_and_parse_AfterSend(r) ELSE send_AfterSend(r)

AfterText(a, st, t) ==
    IF a.fn = "send_and_parse"
    THEN send_and_parse_AfterText(st, t)
    ELSE send_AfterText(st, t)

\* The value of send().await: the builder's error when the request could not
\* be built, otherwise what the network does.
ReqwestSend(i) ==
    IF Len(sent[i]) = 0
    THEN [ok |-> FALSE, status |-> 0, cause |-> "builder error"]
    ELSE IF server[i].transport = "ok"
    THEN [ok |-> TRUE, status |-> server[i].status, cause |-> ""]
    ELSE [ok |-> FALSE, status |-> 0, cause |-> server[i].transport]

\* The value of res.text().await
ResponseText(i) ==
    IF server[i].read = "ok"
    THEN [ok |-> TRUE, text |-> server[i].text, cause |-> ""]
    ELSE [ok |-> FALSE, text |-> <<>>, cause |-> server[i].read]

\* The call runs to its first suspension point, send().await: it builds the
\* request and puts it on the wire, or panics in unwrap().
Invoke(i) ==
    /\ pc[i] = "start"
    /\ LET d == Dispatch(args[i])
       IN  \/ /\ d.panic
              /\ pc' = [pc EXCEPT ![i] = "panicked"]
              /\ steps' = [steps EXCEPT ![i] = Append(@, "panic")]
              /\ sent' = sent
           \/ /\ ~d.panic
              /\ d.builder.ok
              /\ pc' = [pc EXCEPT ![i] = "awaitSend"]
              /\ steps' = [steps EXCEPT ![i] = Append(@, "request")]
              /\ sent' = [sent EXCEPT ![i] = Append(@, d.builder.val)]
           \/ /\ ~d.panic
              /\ ~d.builder.ok
              /\ pc' = [pc EXCEPT ![i] = "awaitSend"]
              /\ steps' = [steps EXCEPT ![i] = Append(@, "builder error")]
              /\ sent' = sent
    /\ UNCHANGED <<args, server, result, log>>

\* like SendCompletes, but a request the transport failed is sent once more
SendCompletes_Retry(i) ==
    /\ pc[i] = "awaitSend"
    /\ LET r == ReqwestSend(i)
           o == AfterSend(args[i], r)
       IN  IF ~r.ok /\ Len(sent[i]) = 1
           THEN /\ sent' = [sent EXCEPT ![i] = Append(@, sent[i][1])]
                /\ steps' = [steps EXCEPT ![i] = Append(@, "request")]
                /\ UNCHANGED <<pc, result, log>>
           ELSE /\ pc' = [pc EXCEPT ![i] = o.next]
                /\ result' = [result EXCEPT ![i] = o.result]
                /\ steps' = [steps EXCEPT ![i] = @ \o o.did]
                /\ log' = log \o o.logged
                /\ sent' = sent
    /\ UNCHANGED <<args, server>>

\* send().await completes: the call returns, or runs to text().await.
SendCompletes(i) ==
    /\ pc[i] = "awaitSend"
    /\ LET o == AfterSend(args[i], ReqwestSend(i))
       IN  /\ pc' = [pc EXCEPT ![i] = o.next]
           /\ result' = [result EXCEPT ![i] = o.result]
           /\ steps' = [steps EXCEPT ![i] = @ \o o.did]
           /\ log' = log \o o.logged
    /\ UNCHANGED <<args, server, sent>>

\* text().await completes: the call returns.
TextCompletes(i) ==
    /\ pc[i] = "awaitText"
    /\ LET o == AfterText(args[i], server[i].status, ResponseText(i))
       IN  /\ pc' = [pc EXCEPT ![i] = o.next]
           /\ result' = [result EXCEPT ![i] = o.result]
           /\ steps' = [steps EXCEPT ![i] = @ \o o.did]
           /\ log' = log \o o.logged
    /\ UNCHANGED <<args, server, sent>>

Next ==
    \/ \E i \in Calls : Invoke(i)
    \/ \E i \in Calls : SendCompletes(i)
    \/ \E i \in Calls : TextCompletes(i)

Spec == Init /\ [][Next]_vars

SpecConc == InitConc /\ [][Next]_vars

TypeOK ==
    /\ \A i \in Calls :
         /\ pc[i] \in {"start", "awaitSend", "awaitText", "done", "panicked"}
         /\ Len(result[i]) <= 1
    /\ Len(log) <= Cardinality(Calls)

-----------------------------------------------------------------------------
(* Vocabulary of the properties *)

Returned(i) == IsSome(result[i])
Res(i) == result[i][1]
Did(i, what) == \E n \in 1..Len(steps[i]) : steps[i][n] = what

\* Call i obtained a response: its request went out and the transport
\* delivered a status line.
GotResponse(i) == Len(sent[i]) = 1 /\ server[i].transport = "ok"

\* Call i obtained no response: the request could not be built or the
\* transport failed.
NoResponse(i) == Len(sent[i]) = 0 \/ server[i].transport # "ok"

Finished(i) == pc[i] = "done"

-----------------------------------------------------------------------------
(* C1: every call of send or send_and_parse, with any method and with the  *)
(* payload present or absent, ends by returning Ok or Err to the caller:   *)
(* no call panics.                                                         *)
C1_EveryCallReturns ==
    \A i \in Calls :
        /\ pc[i] # "panicked"
        /\ Returned(i) \/ pc[i] \in {"start", "awaitSend", "awaitText"}

-----------------------------------------------------------------------------
C2_Case(i) ==
    /\ args[i].fn = "send_and_parse"
    /\ Finished(i)
    /\ GotResponse(i)
    /\ server[i].status = 200
    /\ server[i].read = "ok"

(* C2: in send_and_parse, when the transport succeeds, the status is       *)
(* exactly 200 and the body is read as text, the result is Ok(value) with  *)
(* the fields of the decoded body if the text deserializes into U, and     *)
(* Err(E::deserialization_error(cause)) if it does not; E's deserializer   *)
(* is not tried on that text.                                              *)
C2_Status200 ==
    \A i \in Calls :
        C2_Case(i) =>
            LET text == server[i].text
            IN  /\ Returned(i)
                /\ ~Did(i, "E::de")
                /\ Did(i, "U::de")
                /\ text = BodySuccess => Res(i) = Ok([data |-> "token-1"])
                /\ text = BodyBoth => Res(i) = Ok([data |-> "token-2"])
                /\ text = BodyError =>
                     Res(i) = Err(deserialization_error("U: missing field data"))
                /\ text \in {BodyGarbage, BodyEmpty} =>
                     Res(i) = Err(deserialization_error("U: expected value"))
                /\ text \in Bodies

C2_Witness ==
    \E i \in Calls :
        /\ C2_Case(i)
        /\ server[i].text = BodyError
        /\ Res(i) = Err(deserialization_error("U: missing field data"))

-----------------------------------------------------------------------------
C3_Case(i) ==
    /\ args[i].fn = "send_and_parse"
    /\ Finished(i)
    /\ GotResponse(i)
    /\ server[i].status # 200

C3_Decodes(i) == server[i].read = "ok" /\ E_de(server[i].text).ok

(* C3, as stated: in send_and_parse, for every response whose status is    *)
(* not exactly 200, the result is never Ok: Err(decoded error) if the body *)
(* text deserializes into E, otherwise Err(E::deserialization_error(..)).  *)
C3_AsStated ==
    \A i \in Calls :
        C3_Case(i) =>
            /\ Returned(i)
            /\ ~Res(i).ok
            /\ C3_Decodes(i) => Res(i) = Err(E_de(server[i].text).val)
            /\ ~C3_Decodes(i) => Res(i).val.ctor = "deserialization_error"

(* C3, amended: for every response whose status is not exactly 200 the     *)
(* result is never Ok; when the body is read as text the result is         *)
(* Err(decoded error) if the text deserializes into E and                  *)
(* Err(E::deserialization_error(cause)) otherwise; when the body cannot be *)
(* read the result is Err(E::read_error(cause)).                           *)
C3_Not200 ==
    \A i \in Calls :
        C3_Case(i) =>
            LET text == server[i].text
            IN  /\ Returned(i)
                /\ ~Res(i).ok
                /\ server[i].read = "ok" =>
                     /\ text = BodyError =>
                          Res(i) = Err([ctor |-> "de", arg |-> "denied"])
                     /\ text = BodyBoth =>
                          Res(i) = Err([ctor |-> "de", arg |-> "partial"])
                     /\ text = BodySuccess =>
                          Res(i) = Err(deserialization_error("E: missing field errors"))
                     /\ text \in {BodyGarbage, BodyEmpty} =>
                          Res(i) = Err(deserialization_error("E: expected value"))
                     /\ ~Did(i, "U::de")
                /\ server[i].read # "ok" =>
                     Res(i) = Err(read_error(server[i].read))

C3_Witness ==
    \E i \in Calls :
        /\ C3_Case(i)
        /\ server[i].status = 201
        /\ server[i].read = "ok"
        /\ server[i].text = BodyBoth
        /\ Res(i) = Err([ctor |-> "de", arg |-> "partial"])

-----------------------------------------------------------------------------

\* What send_and_parse returns to a response of status st whose body reads
\* as t.
send_and_parse_Returns(st, t) ==
    LET o == send_and_parse_AfterSend([ok |-> TRUE, status |-> st, cause |-> ""])
    IN  IF o.next = "done"
        THEN o.result[1]
        ELSE send_and_parse_AfterText(st, t).result[1]

C4_Case(i) ==
    /\ args[i].fn = "send"
    /\ Finished(i)
    /\ GotResponse(i)

C4_Is2xx(st) == st \in 200..299

(* C4: send returns Ok(true) for every response with a 2xx status without  *)
(* reading or deserializing the body; for every non-2xx response it        *)
(* returns exactly the Err value send_and_parse returns for the same       *)
(* status and body.                                                        *)
C4_SendAgrees ==
    \A i \in Calls :
        C4_Case(i) =>
            /\ Returned(i)
            /\ C4_Is2xx(server[i].status) =>
                 /\ Res(i).ok
                 /\ Res(i).val = TRUE
                 /\ steps[i] = <<"request", "status">>
            /\ ~C4_Is2xx(server[i].status) =>
                 /\ ~Res(i).ok
                 /\ Res(i) = send_and_parse_Returns(server[i].status, ResponseText(i))

C4_Witness ==
    \E i \in Calls :
        /\ C4_Case(i)
        /\ server[i].status = 404
        /\ server[i].read = "ok"
        /\ server[i].text = BodyGarbage
        /\ Res(i) = Err(deserialization_error("E: expected value"))

-----------------------------------------------------------------------------
C5_Case(i) ==
    /\ Finished(i)
    /\ NoResponse(i)

(* C5: when the transport call fails (no response obtained), send and      *)
(* send_and_parse return Err(E::default()) for every method; no status is  *)
(* inspected, no body is read, no deserializer is invoked and the cause    *)
(* does not appear in the result.                                          *)
C5_TransportFailure ==
    \A i \in Calls :
        C5_Case(i) =>
            /\ Returned(i)
            /\ Res(i) = Err([ctor |-> "default", arg |-> ""])
            /\ Res(i).val.arg \notin TransportErrors \cup {"builder error"}
            /\ ~Did(i, "status")
            /\ ~Did(i, "text")
            /\ ~Did(i, "U::de")
            /\ ~Did(i, "E::de")
            /\ log = <<>>

C5_Witness ==
    \E i \in Calls :
        /\ C5_Case(i)
        /\ args[i].fn = "send"
        /\ args[i].method = "Put"
        /\ Len(sent[i]) = 1
        /\ server[i].transport = "timeout"
        /\ Res(i) = Err([ctor |-> "default", arg |-> ""])

-----------------------------------------------------------------------------
C6_Case(i) ==
    /\ args[i].method = "Get"
    /\ pc[i] # "start"

C6_AuthenticationQuery ==
    << "email", "=", "mark", "%40", "kodecraft.dev", "&",
       "password", "=", "pass", "+", "word" >>

(* C6: for a Get, in send and in send_and_parse, the requested address is  *)
(* the given address when no payload is present, address + "?" + encoded   *)
(* fields when the payload's query-string encoding succeeds, and the given *)
(* address when it fails; the failure is not reported and the request is   *)
(* still issued.                                                           *)
C6_GetAddress ==
    \A i \in Calls :
        C6_Case(i) =>
            LET a == args[i]
            IN  /\ pc[i] # "panicked"
                /\ a.request \in Payloads
                /\ a.url \in {ExampleCom, ExampleItems} =>
                     /\ Len(sent[i]) = 1
                     /\ steps[i][1] = "request"
                     /\ sent[i][1].verb = "GET"
                     /\ a.request = None => sent[i][1].url = a.url
                     /\ a.request = Some(AuthenticationRequest) =>
                          sent[i][1].url = a.url \o <<"?">> \o C6_AuthenticationQuery
                     /\ a.request = Some(EmptyRequest) =>
                          sent[i][1].url = a.url \o <<"?">>
                     /\ a.request \in {Some(NestedRequest), Some(FailingRequest)} =>
                          sent[i][1].url = a.url

C6_Witness ==
    \E i \in Calls :
        /\ C6_Case(i)
        /\ args[i].fn = "send"
        /\ args[i].request = Some(NestedRequest)
        /\ Len(sent[i]) = 1
        /\ sent[i][1].url = args[i].url

-----------------------------------------------------------------------------
C7_Verb(method) ==
    CASE method = "Get" -> "GET"
      [] method = "Post" -> "POST"
      [] method = "Put" -> "PATCH"
      [] method = "Delete" -> "DELETE"

C7_AuthenticationJson ==
    << "{", "\"", "email", "\"", ":", "\"", "mark", "@", "kodecraft.dev", "\"",
       ",", "\"", "password", "\"", ":", "\"", "pass", " ", "word", "\"", "}" >>

C7_Json(request) ==
    CASE request = Some(AuthenticationRequest) -> C7_AuthenticationJson
      [] request = Some(EmptyRequest) -> <<"{", "}">>
      [] request = Some(NestedRequest) ->
           <<"{", "\"", "filter", "\"", ":", "{", "}", "}">>

\* The payload is present and has a JSON encoding.
C7_Encodable(request) ==
    request \in {Some(AuthenticationRequest), Some(EmptyRequest), Some(NestedRequest)}

-----------------------------------------------------------------------------

Ended(i) == pc[i] \in {"done", "panicked"}

\* Two calls with the same arguments and the same response end alike.
C8_Functional ==
    \A i, j \in Calls :
        (Ended(i) /\ Ended(j) /\ args[i] = args[j] /\ server[i] = server[j])
            => (pc[i] = pc[j] /\ result[i] = result[j] /\ sent[i] = sent[j])

\* A step is the step of one call and leaves every other call as it was.
C8_OwnStateOnly ==
    \E i \in Calls :
        /\ \A j \in Calls \ {i} :
             /\ pc'[j] = pc[j]
             /\ sent'[j] = sent[j]
             /\ steps'[j] = steps[j]
             /\ result'[j] = result[j]
        /\ args' = args
        /\ server' = server

\* The one write to shared state: send_and_parse logs the body of a
\* response that is not a 200 (line 117).
C8_LogsOwnErrorBody ==
    \E i \in Calls :
        /\ args[i].fn = "send_and_parse"
        /\ pc[i] = "awaitText"
        /\ pc'[i] = "done"
        /\ server[i].status # 200
        /\ server[i].read = "ok"
        /\ log' = Append(log, log_error(server[i].text))

-----------------------------------------------------------------------------
C9_Case(i) ==
    /\ Finished(i)
    /\ GotResponse(i)
    /\ server[i].read # "ok"

(* C9: when the transport succeeds but reading the body as text fails, the *)
(* result is Err(E::read_error(cause)) and no deserialization is           *)
(* attempted: in send_and_parse for every status, in send for every        *)
(* non-2xx status; in send a 2xx response never yields a read error, its   *)
(* body not being read.                                                    *)
C9_ReadFailure ==
    \A i \in Calls :
        C9_Case(i) =>
            LET reads == args[i].fn = "send_and_parse"
                           \/ server[i].status \notin 200..299
            IN  /\ Returned(i)
                /\ reads =>
                     /\ Res(i) = Err([ctor |-> "read_error", arg |-> server[i].read])
                     /\ steps[i] = <<"request", "status", "text">>
                /\ ~reads =>
                     /\ Res(i).ok
                     /\ ~Did(i, "text")

C9_Witness ==
    \E i \in Calls :
        /\ C9_Case(i)
        /\ args[i].fn = "send"
        /\ server[i].status = 500
        /\ server[i].read = "decode"
        /\ Res(i) = Err([ctor |-> "read_error", arg |-> "decode"])

-----------------------------------------------------------------------------
C10_Runs ==
    { <<"request", "status", "text", "U::de">>,
      <<"request", "status", "text", "E::de">>,
      <<"builder error">>,
      <<"panic">> }

C10_IsPrefix(p, q) == Len(p) <= Len(q) /\ SubSeq(q, 1, Len(p)) = p

C10_Order ==
    \A i \in Calls :
        /\ \E run \in C10_Runs : C10_IsPrefix(steps[i], run)
        /\ Len(sent[i]) <= 1
        /\ Did(i, "request") <=> Len(sent[i]) = 1
        /\ Returned(i) <=> Finished(i)

\* Returning is the last step of a call.
C10_ReturnIsLast ==
    \A i \in Calls :
        Returned(i) =>
            /\ pc'[i] = pc[i]
            /\ sent'[i] = sent[i]
            /\ steps'[i] = steps[i]
            /\ result'[i] = result[i]

(* C10: a call that reaches the network issues exactly one HTTP request:   *)
(* no second request follows a transport failure, a non-success status, a  *)
(* read failure or a deserialization failure; the steps of a call occur in *)
(* the order request sent, status inspected, body read at most once, at    *)
(* most one deserialization attempted, result returned.                    *)
C10_OneRoundTrip ==
    /\ []C10_Order
    /\ [][C10_ReturnIsLast]_vars

C10_Witness ==
    \E i \in Calls :
        /\ Finished(i)
        /\ server[i].transport = "timeout"
        /\ Len(sent[i]) = 1
        /\ steps[i] = <<"request">>
        /\ Res(i) = Err([ctor |-> "default", arg |-> ""])

====
